---- MODULE Spec2Model ----
(***************************************************************************)
(* Model of the balls-game simulation core: src/src/lib.rs (AngleVec,      *)
(* clamp, slow, Ball, Collides) and src/src/main.rs (BallsGame::new,       *)
(* BallsGame::update, the indexing done by BallsGame::draw).               *)
(*                                                                         *)
(* Numbers.  The program computes in f32.  The model computes in fixed     *)
(* point: lengths, radii and magnitudes are integers counting tenths of a  *)
(* pixel (Scale), directions are integers counting degrees (PI is 180),    *)
(* sines and ratios carry three decimals (Fine).  Every product and        *)
(* quotient is rounded to the nearest unit, as f32 rounds to the nearest   *)
(* representable value.  Directions are never normalised, as in the code.  *)
(* Sequences are indexed from 1: model index i is the code's index i - 1.  *)
(***************************************************************************)
EXTENDS Integers, Sequences, FiniteSets, TLC

VARIABLES
    balls,        \* BallsGame.balls
    active_ball,  \* BallsGame.active_ball: None or an index into balls
    panicked,     \* "no", or why the process has panicked
    ticks,        \* number of frames run so far
    last,         \* the last frame: its input and the handler's intermediate values
    probe         \* a library function under test: its arguments and its result

vars == <<balls, active_ball, panicked, ticks, last, probe>>

(***************************************************************************)
(* Bounds of the model and resolution of the arithmetic                    *)
(***************************************************************************)
\* frames explored from the initial state
MaxTicks == 2
\* largest |value| handed to slow, in units of 1/Scale
MaxValue == 60
\* ball centers handed to collides lie on a grid of 5 px steps, this many
\* steps each way
MaxGrid == 5

\* fixed-point resolution of lengths and magnitudes: units per pixel
Scale == 10
\* resolution of sines, cosines and radius ratios
Fine == 1000
\* Option::None for active_ball
None == 0
\* std::f32::consts::PI, in degrees
PI == 180

(***************************************************************************)
(* Program constants (src/src/lib.rs, impl Ball), in units of 1/Scale      *)
(***************************************************************************)
ACCELERATION == 3
MAX_VELOCITY == 1200
DECELERATION == 15
BOUNCE_DECELERATION == 20
SLOW_MAGNITUDE == 2
\* the literal 10.0 of the collision response
REPULSION == 100
\* BALL_COUNT = 5..=40 and the radius range 30.0..90.0 of BallsGame::new
BALL_COUNT_MIN == 5
BALL_COUNT_MAX == 40
RADIUS_MIN == 300
RADIUS_MAX == 900

(***************************************************************************)
(* f32 helpers                                                             *)
(***************************************************************************)
\* f32::abs
Abs(v) == IF v < 0 THEN -v ELSE v

\* f32::signum: 1.0 for a positive number and for +0.0, -1.0 for a negative one
signum(v) == IF v < 0 THEN -1 ELSE 1

\* a / b rounded to the nearest integer, halves away from zero (b > 0)
RoundDiv(a, b) == signum(a) * ((2 * Abs(a) + b) \div (2 * b))

\* product of two fixed-point numbers of resolution Scale
Mul(a, b) == RoundDiv(a * b, Scale)

RECURSIVE SqrtSearch(_, _, _)
\* the largest s in lo..hi with s * s <= n
SqrtSearch(n, lo, hi) ==
    IF lo >= hi THEN lo
    ELSE CHOOSE s \in {IF mid * mid <= n THEN SqrtSearch(n, mid, hi)
                                         ELSE SqrtSearch(n, lo, mid - 1) :
                       mid \in {(lo + hi + 1) \div 2}} : TRUE

\* f32::sqrt: the square root of n rounded to the nearest integer
sqrt(n) ==
    LET s == SqrtSearch(n, 0, 46340)
    IN IF n - s * s > s THEN s + 1 ELSE s

\* sin of 0..90 degrees, times Fine
SinTable ==
    <<0, 17, 35, 52, 70, 87, 105, 122, 139, 156, 174, 191, 208,
      225, 242, 259, 276, 292, 309, 326, 342, 358, 375, 391, 407, 423,
      438, 454, 469, 485, 500, 515, 530, 545, 559, 574, 588, 602, 616,
      629, 643, 656, 669, 682, 695, 707, 719, 731, 743, 755, 766, 777,
      788, 799, 809, 819, 829, 839, 848, 857, 866, 875, 883, 891, 899,
      906, 914, 921, 927, 934, 940, 946, 951, 956, 961, 966, 970, 974,
      978, 982, 985, 988, 990, 993, 995, 996, 998, 999, 999, 1000, 1000>>

\* f32::sin of a direction in degrees, times Fine
sin(d) ==
    LET a == d % (2 * PI)
    IN IF a <= 90 THEN SinTable[a + 1]
       ELSE IF a <= PI THEN SinTable[PI - a + 1]
       ELSE IF a <= 270 THEN -SinTable[a - PI + 1]
       ELSE -SinTable[2 * PI - a + 1]

\* f32::cos of a direction in degrees, times Fine
cos(d) == sin(d + 90)

RECURSIVE AtanSearch(_, _, _, _)
\* the largest k in lo..hi with tan(k) <= ay / ax, for ax, ay >= 0
AtanSearch(ax, ay, lo, hi) ==
    IF lo >= hi THEN lo
    ELSE CHOOSE k \in {IF ay * cos(mid) >= ax * sin(mid)
                       THEN AtanSearch(ax, ay, mid, hi)
                       ELSE AtanSearch(ax, ay, lo, mid - 1) :
                       mid \in {(lo + hi + 1) \div 2}} : TRUE

\* the nearer to the angle of (ax, ay) of f and f + 1 degrees: the one whose
\* direction has the smaller cross product with (ax, ay)
AtanNearest(ax, ay, f) ==
    IF f < 90 /\ Abs(ay * cos(f + 1) - ax * sin(f + 1)) < Abs(ay * cos(f) - ax * sin(f))
    THEN f + 1
    ELSE f

\* the angle of (ax, ay) in degrees, in 0..90, for ax, ay >= 0 and not both 0
AtanQuadrant(ax, ay) == AtanNearest(ax, ay, AtanSearch(ax, ay, 0, 90))

\* the angle a of (|x|, |y|) carried to the quadrant of (x, y)
AtanSigned(y, x, a) ==
    IF x >= 0 THEN (IF y >= 0 THEN a ELSE -a)
    ELSE (IF y >= 0 THEN PI - a ELSE a - PI)

\* f32::atan2 (y.atan2(x)) in degrees, in -180..180; atan2(0, 0) is 0
atan2(y, x) ==
    IF x = 0 /\ y = 0 THEN 0
    ELSE AtanSigned(y, x, AtanQuadrant(Abs(x), Abs(y)))

(***************************************************************************)
(* src/src/lib.rs                                                          *)
(***************************************************************************)
\* AngleVec::from_xy
from_xy(x, y) ==
    [direction |-> atan2(y, x), magnitude |-> sqrt(x * x + y * y)]

\* to_xy with cos and sin exchanged
to_xy_swapped(v) ==
    [x |-> RoundDiv(v.magnitude * sin(v.direction), Fine),
     y |-> RoundDiv(v.magnitude * cos(v.direction), Fine)]

\* AngleVec::to_xy
to_xy(v) ==
    [x |-> RoundDiv(v.magnitude * cos(v.direction), Fine),
     y |-> RoundDiv(v.magnitude * sin(v.direction), Fine)]

\* clamp without its first branch: the upper limit is not applied
clamp_lower_only(value, min, max) ==
    IF value < min THEN min ELSE value

\* clamp without its else branch: the lower limit is not applied
clamp_upper_only(value, min, max) ==
    IF value > max THEN max ELSE value

\* clamp: the value left in *value
clamp(value, min, max) ==
    IF value > max THEN max
    ELSE IF value < min THEN min
    ELSE value

\* f32::MANTISSA_DIGITS, the significant binary digits of the f32 in *value
MANTISSA_DIGITS == 24

RECURSIVE ulp(_)
\* the gap between neighbouring f32 values at magnitude n, in units
ulp(n) == IF n < 2^MANTISSA_DIGITS THEN 1 ELSE 2 * ulp(n \div 2)

\* n rounded to the nearest f32 value, ties to the even one; it is n itself
\* below 2^MANTISSA_DIGITS units, which every quantity of a game is
f32(n) ==
    LET u == ulp(Abs(n))
        q == Abs(n) \div u
        r == Abs(n) % u
    IN signum(n) * u * (IF 2 * r > u \/ (2 * r = u /\ q % 2 = 1) THEN q + 1 ELSE q)

\* slow without the test: the deceleration is always subtracted
slow_overshoot(value, deceleration) ==
    f32(value - deceleration * signum(value))

\* slow with += for -=: the value moves away from 0
slow_speeds_up(value, deceleration) ==
    IF Abs(value) < deceleration THEN 0
    ELSE f32(value + deceleration * signum(value))

\* slow: the value left in *value
slow(value, deceleration) ==
    IF Abs(value) < deceleration THEN 0
    ELSE f32(value - deceleration * signum(value))

\* Ball::new
Ball_new(x, y, radius, color) ==
    [point |-> [x |-> x, y |-> y],
     velocity |-> [direction |-> 0, magnitude |-> 0],
     radius |-> radius,
     color |-> color,
     is_colliding |-> FALSE]

\* collides with < for <=: tangent circles do not collide
collides_strict(self, other) ==
    (self.point.x - other.point.x) * (self.point.x - other.point.x)
      + (self.point.y - other.point.y) * (self.point.y - other.point.y)
    < (self.radius + other.radius) * (self.radius + other.radius)

\* <Ball as Collides<Ball>>::collides
collides(self, other) ==
    (self.point.x - other.point.x) * (self.point.x - other.point.x)
      + (self.point.y - other.point.y) * (self.point.y - other.point.y)
    <= (self.radius + other.radius) * (self.radius + other.radius)

(***************************************************************************)
(* src/src/main.rs: BallsGame::new                                         *)
(***************************************************************************)
\* one value drawn by rand::Rng::gen_range(lo..hi) is any v with lo <= v < hi;
\* gen_range panics when the range is empty
InRange(v, lo, hi) == lo <= v /\ v < hi

\* The outcomes of the random draws of BallsGame::new that the model explores:
\* each is the list of (x, y, radius, color) in the order the balls are pushed.
Layouts ==
    << \* five balls in the upper left of the window; the second and fourth
       \* pushed overlap (centers 90 px apart, radii 80 and 30)
       << <<5000, 4000, 500, 1>>, <<2000, 2000, 800, 2>>, <<1000, 5000, 400, 3>>,
          <<2900, 2000, 300, 4>>, <<7000, 5000, 600, 5>> >>,
       \* six balls spread over the window; the second and third pushed are
       \* tangent (centers 90 px apart, radii 50 and 40)
       << <<15000, 8000, 450, 1>>, <<9000, 6000, 500, 2>>, <<9900, 6000, 400, 3>>,
          <<2000, 2000, 800, 4>>, <<10000, 3000, 700, 5>>, <<5200, 4200, 350, 6>> >> >>

\* whether gen_range is called with an empty range while drawing layout l
EmptyRange(l, size) ==
    \E i \in 1..Len(l) :
        \/ l[i][3] >= size.w - l[i][3]
        \/ l[i][3] >= size.h - l[i][3]

\* whether layout l is an outcome of the draws of BallsGame::new on this canvas
Drawable(l, size) ==
    /\ Len(l) \in BALL_COUNT_MIN..BALL_COUNT_MAX
    /\ \A i \in 1..Len(l) :
        /\ InRange(l[i][3], RADIUS_MIN, RADIUS_MAX)
        /\ InRange(l[i][1], l[i][3], size.w - l[i][3])
        /\ InRange(l[i][2], l[i][3], size.h - l[i][3])

\* one step of the stable sort: b placed behind the balls at least as large
SortInsert(s, b) ==
    LET k == Cardinality({i \in 1..Len(s) : s[i].radius >= b.radius})
    IN SubSeq(s, 1, k) \o <<b>> \o SubSeq(s, k + 1, Len(s))

RECURSIVE sort_by_radius(_)
\* balls.sort_by(|a, b| b.radius.partial_cmp(&a.radius).unwrap()): stable,
\* largest radius first
sort_by_radius(s) ==
    IF s = <<>> THEN <<>>
    ELSE SortInsert(sort_by_radius(SubSeq(s, 1, Len(s) - 1)), s[Len(s)])

\* BallsGame::new: the game built from the draws l
BallsGame_new(l) ==
    [balls |-> sort_by_radius([i \in 1..Len(l) |->
                                  Ball_new(l[i][1], l[i][2], l[i][3], l[i][4])]),
     active_ball |-> None]

(***************************************************************************)
(* The frame's input: what update reads from ctx                           *)
(***************************************************************************)
\* ctx.gfx.drawable_size(): the window as created (1600 x 900) and after a
\* resize to 800 x 150
Sizes == {[w |-> 16000, h |-> 9000], [w |-> 8000, h |-> 1500]}

\* ctx.mouse.position(): inside the squares of the 80 px and the 30 px ball of
\* the first layout; in a corner of the square of the first layout's 50 px
\* ball and of the second layout's 35 px ball, outside their circles; 100 px
\* left of the first layout's 50 px ball, in no square; outside the window
Cursors ==
    {[x |-> 2650, y |-> 2000], [x |-> 5450, y |-> 4450],
     [x |-> 4000, y |-> 4000], [x |-> -200, y |-> 9500]}

\* The inputs of one frame.  just_pressed and just_released are edges of one
\* button and never both hold.  With r (the R key edge) update reads nothing
\* but the canvas size and the random draws.
Inputs ==
    {in \in [cursor : Cursors, just_pressed : BOOLEAN, just_released : BOOLEAN,
             z : BOOLEAN, c : BOOLEAN, r : BOOLEAN, size : Sizes,
             layout : 1..Len(Layouts)] :
        /\ ~(in.just_pressed /\ in.just_released)
        /\ in.r => /\ ~in.just_pressed /\ ~in.just_released /\ ~in.z /\ ~in.c
                   /\ in.cursor = [x |-> 4000, y |-> 4000]
                   /\ \/ Drawable(Layouts[in.layout], in.size)
                      \/ EmptyRange(Layouts[in.layout], in.size)
        /\ ~in.r => in.layout = 1}

(***************************************************************************)
(* src/src/main.rs: BallsGame::update, after the reset check               *)
(***************************************************************************)
\* self.balls[active]: whether the index is in range (otherwise Rust panics)
InBounds(bs, active) == active \in 1..Len(bs)

\* the snap with ball.point.y left as it was
snap_x_only(bs, active, in) ==
    IF in.z /\ active # None
    THEN [bs EXCEPT ![active].point.x = in.cursor.x]
    ELSE bs

\* lines 97-104: move the active ball to the cursor while Z is held
snap(bs, active, in) ==
    IF in.z /\ active # None
    THEN [bs EXCEPT ![active].point = [x |-> in.cursor.x, y |-> in.cursor.y]]
    ELSE bs

\* lines 114-115: the test "mouse collides with ball"
under_cursor(ball, cursor) ==
    /\ Abs(ball.point.x - cursor.x) < ball.radius
    /\ Abs(ball.point.y - cursor.y) < ball.radius

\* the loop without its break: the last ball under the cursor wins
scan_without_break(bs, cursor, i) ==
    LET hit == {k \in i..Len(bs) : under_cursor(bs[k], cursor)}
    IN IF hit = {} THEN None ELSE CHOOSE k \in hit : \A n \in hit : n <= k

RECURSIVE scan(_, _, _)
\* lines 110-121: active_ball = None, then the loop over balls.iter().enumerate()
\* from index i on, which breaks at the first ball under the cursor
scan(bs, cursor, i) ==
    IF i > Len(bs) THEN None
    ELSE IF under_cursor(bs[i], cursor) THEN i
    ELSE scan(bs, cursor, i + 1)

\* the launch without "ball.velocity.magnitude *= Ball::ACCELERATION"
launch_unscaled(ball, cursor) ==
    from_xy(ball.point.x - cursor.x, ball.point.y - cursor.y)

\* lines 128-130: the velocity given to the released ball
launch(ball, cursor) ==
    LET v == from_xy(ball.point.x - cursor.x, ball.point.y - cursor.y)
    IN [v EXCEPT !.magnitude = Mul(v.magnitude, ACCELERATION)]

\* the pointer code with "self.active_ball = None" moved out of the release
\* branch: a frame without an edge drops the ball
pointer_dropping(bs, active, in) ==
    IF in.just_pressed
    THEN [balls |-> bs, active_ball |-> scan(bs, in.cursor, 1)]
    ELSE IF in.just_released
    THEN [balls |-> IF active # None
                    THEN [bs EXCEPT ![active].velocity = launch(bs[active], in.cursor)]
                    ELSE bs,
          active_ball |-> None]
    ELSE [balls |-> bs, active_ball |-> None]

\* lines 106-135: the press edge, else the release edge
pointer(bs, active, in) ==
    IF in.just_pressed
    THEN [balls |-> bs, active_ball |-> scan(bs, in.cursor, 1)]
    ELSE IF in.just_released
    THEN [balls |-> IF active # None
                    THEN [bs EXCEPT ![active].velocity = launch(bs[active], in.cursor)]
                    ELSE bs,
          active_ball |-> None]
    ELSE [balls |-> bs, active_ball |-> active]

\* lines 147-151: 1.0, or SLOW_MAGNITUDE while C is held
speed_of(in) == IF in.c THEN SLOW_MAGNITUDE ELSE Scale

\* lines 167-170: the ball is out of bounds
out_of_bounds(x, y, radius, size) ==
    \/ x < radius
    \/ x > size.w - radius
    \/ y < radius
    \/ y > size.h - radius

\* a coordinate held at the lower wall only
keep_above(v, radius, extent) ==
    IF v < radius THEN radius ELSE v

\* lines 181-187 and 190-194: the coordinate v put back between the walls at
\* radius and at extent - radius, the lower wall tested first
keep_inside(v, radius, extent) ==
    IF v < radius THEN radius
    ELSE IF v > extent - radius THEN extent - radius
    ELSE v

\* the loop body without the slow of lines 173-176: a bounce costs nothing
move_without_bounce_loss(ball, in) ==
    LET speed == speed_of(in)
        m1 == clamp(ball.velocity.magnitude, -MAX_VELOCITY, MAX_VELOCITY)
        v == to_xy([direction |-> ball.velocity.direction,
                    magnitude |-> Mul(m1, speed)])
        x1 == ball.point.x + v.x
        y1 == ball.point.y + v.y
        m2 == slow(m1, Mul(DECELERATION, speed))
        out == out_of_bounds(x1, y1, ball.radius, in.size)
        d3 == IF out THEN ball.velocity.direction * (-1) ELSE ball.velocity.direction
        d4 == IF x1 < ball.radius \/ x1 > in.size.w - ball.radius
              THEN d3 + PI
              ELSE d3
    IN [ball EXCEPT !.point = [x |-> keep_inside(x1, ball.radius, in.size.w),
                               y |-> keep_inside(y1, ball.radius, in.size.h)],
                    !.velocity = [direction |-> d4, magnitude |-> m2]]

\* the loop body with "ball.velocity.direction += PI" at the top and bottom
\* walls too
move_symmetric(ball, in) ==
    LET speed == speed_of(in)
        m1 == clamp(ball.velocity.magnitude, -MAX_VELOCITY, MAX_VELOCITY)
        v == to_xy([direction |-> ball.velocity.direction,
                    magnitude |-> Mul(m1, speed)])
        x1 == ball.point.x + v.x
        y1 == ball.point.y + v.y
        m2 == slow(m1, Mul(DECELERATION, speed))
        out == out_of_bounds(x1, y1, ball.radius, in.size)
        d3 == IF out THEN ball.velocity.direction * (-1) ELSE ball.velocity.direction
        m3 == IF out THEN slow(m2, Mul(BOUNCE_DECELERATION, speed)) ELSE m2
        d4 == IF x1 < ball.radius \/ x1 > in.size.w - ball.radius
              THEN d3 + PI
              ELSE d3
        d5 == IF y1 < ball.radius \/ y1 > in.size.h - ball.radius
              THEN d4 + PI
              ELSE d4
    IN [ball EXCEPT !.point = [x |-> keep_inside(x1, ball.radius, in.size.w),
                               y |-> keep_inside(y1, ball.radius, in.size.h)],
                    !.velocity = [direction |-> d5, magnitude |-> m3]]

\* the loop body with "ball.velocity.magnitude *= speed" for the scaled copy
\* of lines 154-155: the stored velocity is scaled
move_scaling_velocity(ball, in) ==
    LET speed == speed_of(in)
        m1 == Mul(clamp(ball.velocity.magnitude, -MAX_VELOCITY, MAX_VELOCITY), speed)
        v == to_xy([direction |-> ball.velocity.direction, magnitude |-> m1])
        x1 == ball.point.x + v.x
        y1 == ball.point.y + v.y
        m2 == slow(m1, Mul(DECELERATION, speed))
        out == out_of_bounds(x1, y1, ball.radius, in.size)
        d3 == IF out THEN ball.velocity.direction * (-1) ELSE ball.velocity.direction
        m3 == IF out THEN slow(m2, Mul(BOUNCE_DECELERATION, speed)) ELSE m2
        d4 == IF x1 < ball.radius \/ x1 > in.size.w - ball.radius
              THEN d3 + PI
              ELSE d3
    IN [ball EXCEPT !.point = [x |-> keep_inside(x1, ball.radius, in.size.w),
                               y |-> keep_inside(y1, ball.radius, in.size.h)],
                    !.velocity = [direction |-> d4, magnitude |-> m3]]

\* lines 138-195: the body of the loop over the balls, for one ball
move(ball, in) ==
    LET speed == speed_of(in)
        m1 == clamp(ball.velocity.magnitude, -MAX_VELOCITY, MAX_VELOCITY)
        v == to_xy([direction |-> ball.velocity.direction,
                    magnitude |-> Mul(m1, speed)])
        x1 == ball.point.x + v.x
        y1 == ball.point.y + v.y
        m2 == slow(m1, Mul(DECELERATION, speed))
        out == out_of_bounds(x1, y1, ball.radius, in.size)
        d3 == IF out THEN ball.velocity.direction * (-1) ELSE ball.velocity.direction
        m3 == IF out THEN slow(m2, Mul(BOUNCE_DECELERATION, speed)) ELSE m2
        d4 == IF x1 < ball.radius \/ x1 > in.size.w - ball.radius
              THEN d3 + PI
              ELSE d3
    IN [ball EXCEPT !.point = [x |-> keep_inside(x1, ball.radius, in.size.w),
                               y |-> keep_inside(y1, ball.radius, in.size.h)],
                    !.velocity = [direction |-> d4, magnitude |-> m3]]

\* the effect of one other ball with the magnitude of the line commented out
\* at 224: "sum_magnitude / 2.0 / radius_ratio", which reads other.velocity
bump_sum_magnitude(ball, other) ==
    IF collides(ball, other)
    THEN LET x == ball.point.x - other.point.x
             y == ball.point.y - other.point.y
             radius_ratio == RoundDiv(ball.radius * Fine, other.radius)
             sum_magnitude == ball.velocity.magnitude + other.velocity.magnitude
             new == [direction |-> atan2(y, x),
                     magnitude |-> RoundDiv(RoundDiv(sum_magnitude, 2) * Fine,
                                            radius_ratio)]
         IN [ball EXCEPT
                !.is_colliding = TRUE,
                !.velocity = [direction |-> RoundDiv(new.direction + ball.velocity.direction, 2),
                              magnitude |-> RoundDiv(new.magnitude + ball.velocity.magnitude, 2)]]
    ELSE ball

\* lines 212-232: the effect on ball of one other ball
bump(ball, other) ==
    IF collides(ball, other)
    THEN LET x == ball.point.x - other.point.x
             y == ball.point.y - other.point.y
             radius_ratio == RoundDiv(ball.radius * Fine, other.radius)
             new == [direction |-> atan2(y, x),
                     magnitude |-> RoundDiv(REPULSION * Fine, radius_ratio)]
         IN [ball EXCEPT
                !.is_colliding = TRUE,
                !.velocity = [direction |-> RoundDiv(new.direction + ball.velocity.direction, 2),
                              magnitude |-> RoundDiv(new.magnitude + ball.velocity.magnitude, 2)]]
    ELSE ball

RECURSIVE bump_all_descending(_, _, _, _)
\* the inner loop with self.balls.iter().enumerate().rev(): last ball first
bump_all_descending(ball, i, bs, j) ==
    IF j > Len(bs) THEN ball
    ELSE IF i = Len(bs) + 1 - j THEN bump_all_descending(ball, i, bs, j + 1)
    ELSE CHOOSE b \in {bump_all_descending(bumped, i, bs, j + 1) :
                       bumped \in {bump(ball, bs[Len(bs) + 1 - j])}} : TRUE

RECURSIVE bump_all(_, _, _, _)
\* lines 205-233: the inner loop over the other balls from index j on
bump_all(ball, i, bs, j) ==
    IF j > Len(bs) THEN ball
    ELSE IF i = j THEN bump_all(ball, i, bs, j + 1)
    ELSE CHOOSE b \in {bump_all(bumped, i, bs, j + 1) :
                       bumped \in {bump(ball, bs[j])}} : TRUE

\* the pass with new_balls.insert(0, ball) for new_balls.push(ball)
resolve_reversed(bs) ==
    [i \in 1..Len(bs) |->
        bump_all([bs[Len(bs) + 1 - i] EXCEPT !.is_colliding = FALSE],
                 Len(bs) + 1 - i, bs, 1)]

\* the pass without "ball.is_colliding = false"
resolve_sticky(bs) ==
    [i \in 1..Len(bs) |-> bump_all(bs[i], i, bs, 1)]

\* lines 197-238: new_balls, built from the balls as the loop above left them
resolve(bs) ==
    [i \in 1..Len(bs) |-> bump_all([bs[i] EXCEPT !.is_colliding = FALSE], i, bs, 1)]

\* the collision pass run before the loop over the balls instead of after it
step_balls_collide_first(b1, p, in) ==
    CHOOSE u \in {[panicked |-> "no",
                   balls |-> [i \in 1..Len(b1) |-> move(b3[i], in)],
                   active_ball |-> p.active_ball,
                   snapped |-> b1, aimed |-> p.balls,
                   moved |-> [i \in 1..Len(b1) |-> move(b3[i], in)]] :
                  b3 \in {resolve(p.balls)}} : TRUE

\* lines 137-240: the loop over the balls and the collision pass, on the
\* balls b1 left by the snap and the balls and active_ball p left by the
\* pointer edges
step_balls(b1, p, in) ==
    CHOOSE u \in {[panicked |-> "no", balls |-> resolve(b3),
                   active_ball |-> p.active_ball,
                   snapped |-> b1, aimed |-> p.balls, moved |-> b3] :
                  b3 \in {[i \in 1..Len(b1) |-> move(p.balls[i], in)]}} : TRUE

\* lines 106-240: the pointer edges and what follows, on the balls b1 left by
\* the snap
step_pointer(b1, active, in) ==
    CHOOSE u \in {step_balls(b1, p, in) : p \in {pointer(b1, active, in)}} : TRUE

\* lines 93-240: update without the reset; the intermediate values are kept
step(bs, active, in) ==
    IF /\ active # None /\ ~InBounds(bs, active)
       /\ (in.z \/ (in.just_released /\ ~in.just_pressed))
    THEN [panicked |-> "index", balls |-> bs, active_ball |-> active,
          snapped |-> bs, aimed |-> bs, moved |-> bs]
    ELSE CHOOSE u \in {step_pointer(b1, active, in) :
                       b1 \in {snap(bs, active, in)}} : TRUE

\* the reset with self.balls replaced and active_ball left as it was
reset_keeping_active(bs, active, in) ==
    IF EmptyRange(Layouts[in.layout], in.size)
    THEN [panicked |-> "spawn", balls |-> bs, active_ball |-> active,
          snapped |-> bs, aimed |-> bs, moved |-> bs]
    ELSE LET g == BallsGame_new(Layouts[in.layout])
         IN [panicked |-> "no", balls |-> g.balls, active_ball |-> active,
             snapped |-> g.balls, aimed |-> g.balls, moved |-> g.balls]

\* lines 86-91, 55-61: the reset, which panics when a gen_range range is empty
reset(bs, active, in) ==
    IF EmptyRange(Layouts[in.layout], in.size)
    THEN [panicked |-> "spawn", balls |-> bs, active_ball |-> active,
          snapped |-> bs, aimed |-> bs, moved |-> bs]
    ELSE LET g == BallsGame_new(Layouts[in.layout])
         IN [panicked |-> "no", balls |-> g.balls, active_ball |-> g.active_ball,
             snapped |-> g.balls, aimed |-> g.balls, moved |-> g.balls]

\* BallsGame::update
update(bs, active, in) ==
    IF in.r THEN reset(bs, active, in) ELSE step(bs, active, in)

\* BallsGame::draw, lines 324-326: self.balls[active] for the selection ring
draw(bs, active) ==
    IF active # None /\ ~InBounds(bs, active) THEN "index" ELSE "no"

(***************************************************************************)
(* The state machine: one action per frame of the event loop               *)
(***************************************************************************)
\* ctx as main leaves it: a 1600 x 900 window, nothing pressed
StartInput(l) ==
    [cursor |-> [x |-> 4000, y |-> 4000], just_pressed |-> FALSE,
     just_released |-> FALSE, z |-> FALSE, c |-> FALSE, r |-> FALSE,
     size |-> [w |-> 16000, h |-> 9000], layout |-> l]

\* no library function is under test
NoProbe == [op |-> "none"]

\* main: BallsGame::new(&mut ctx) on the window as created
GameInit ==
    \E l \in 1..Len(Layouts) :
        /\ Drawable(Layouts[l], StartInput(l).size)
        /\ balls = BallsGame_new(Layouts[l]).balls
        /\ active_ball = BallsGame_new(Layouts[l]).active_ball
        /\ panicked = "no"
        /\ ticks = 0
        /\ last = [kind |-> "new", input |-> StartInput(l), start |-> balls,
                   start_active |-> None, snapped |-> balls, aimed |-> balls,
                   moved |-> balls]

Init == GameInit /\ probe = NoProbe

\* one frame: update, then draw
Frame(in) ==
    /\ probe = NoProbe
    /\ panicked = "no"
    /\ \E u \in {update(balls, active_ball, in)} :
          /\ balls' = u.balls
          /\ active_ball' = u.active_ball
          /\ panicked' = IF u.panicked # "no" THEN u.panicked
                         ELSE draw(u.balls, u.active_ball)
          /\ last' = [kind |-> IF in.r THEN "reset" ELSE "tick", input |-> in,
                      start |-> balls, start_active |-> active_ball,
                      snapped |-> u.snapped, aimed |-> u.aimed, moved |-> u.moved]
    /\ UNCHANGED probe

\* a frame without the R key edge
Tick ==
    /\ ticks < MaxTicks
    /\ \E in \in Inputs : ~in.r /\ Frame(in)
    /\ ticks' = ticks + 1

\* a frame with the R key edge
Reset ==
    /\ ticks < MaxTicks
    /\ \E in \in Inputs : in.r /\ Frame(in)
    /\ ticks' = ticks + 1

Next == Tick \/ Reset

Spec == Init /\ [][Next]_vars

(***************************************************************************)
(* The game left alone, and slow applied again and again                   *)
(***************************************************************************)
\* the game is not running
NoGame ==
    /\ balls = <<>>
    /\ active_ball = None
    /\ panicked = "no"
    /\ ticks = 0
    /\ last = [kind |-> "none"]

\* the decelerations update hands to slow (lines 161 and 173-176, C up or
\* down), and none at all
Decelerations ==
    {0, Mul(DECELERATION, Scale), Mul(DECELERATION, SLOW_MAGNITUDE),
     Mul(BOUNCE_DECELERATION, Scale), Mul(BOUNCE_DECELERATION, SLOW_MAGNITUDE)}

\* a value so large that the f32 nearest to it less a deceleration is itself
Absorbing == 3 * 2^(MANTISSA_DIGITS + 4)

\* the values slow starts from: the small ones, and an absorbing one of each
\* sign
SlowValues == (-MaxValue..MaxValue) \cup {-Absorbing, Absorbing}

\* a value and a deceleration for slow
SlowInit ==
    /\ NoGame
    /\ \E v \in SlowValues, d \in Decelerations :
        probe = [op |-> "slow", value |-> v, deceleration |-> d, start |-> v,
                 before |-> v, applied |-> FALSE, odd |-> FALSE]

\* slow(&mut value, deceleration), once more
SlowStep ==
    /\ probe.op = "slow"
    /\ probe' = [probe EXCEPT !.value = slow(probe.value, probe.deceleration),
                              !.before = probe.value,
                              !.applied = TRUE,
                              !.odd = ~probe.odd]
    /\ UNCHANGED <<balls, active_ball, panicked, ticks, last>>

\* a frame in which the user does nothing: no edge, no Z, the window as
\* created; C is up throughout or down throughout
Coast ==
    /\ \E in \in Inputs :
        /\ ~in.r /\ ~in.just_pressed /\ ~in.just_released /\ ~in.z
        /\ in.size = StartInput(1).size
        /\ in.cursor = StartInput(1).cursor
        /\ last.kind = "tick" => in.c = last.input.c
        /\ Frame(in)
    /\ UNCHANGED ticks

RestInit == Init \/ SlowInit

RestNext == Coast \/ SlowStep

\* event::run calls update in every frame
SpecRest == RestInit /\ [][RestNext]_vars /\ WF_vars(Coast) /\ WF_vars(SlowStep)

(***************************************************************************)
(* Ball::collides on pairs of balls                                        *)
(***************************************************************************)
\* centers on the grid, radii of 5, 10 and 15 px
GridBalls ==
    {Ball_new(5 * Scale * gx, 5 * Scale * gy, 5 * Scale * gr, 1) :
        gx \in -MaxGrid..MaxGrid, gy \in 0..MaxGrid, gr \in 1..3}

\* two balls for collides: the first at the origin or one step right of it
CollidesInit ==
    /\ NoGame
    /\ \E a \in GridBalls, b \in GridBalls :
        /\ a.point.x \in {0, 5 * Scale}
        /\ a.point.y = 0
        /\ probe = [op |-> "collides", a |-> a, b |-> b, applied |-> FALSE,
                    ab |-> FALSE, ba |-> FALSE]

\* a.collides(&b) and b.collides(&a)
CollidesStep ==
    /\ probe.op = "collides"
    /\ ~probe.applied
    /\ probe' = [probe EXCEPT !.applied = TRUE,
                              !.ab = collides(probe.a, probe.b),
                              !.ba = collides(probe.b, probe.a)]
    /\ UNCHANGED <<balls, active_ball, panicked, ticks, last>>

\* the limits handed to clamp: those of update (lines 140-144) and small ones
ClampLimits == {-MAX_VELOCITY, -MaxGrid, 0, MaxGrid, MAX_VELOCITY}

\* the values handed to clamp: the small ones, and the limits of update and
\* their outer neighbours
ClampValues ==
    (-MaxValue..MaxValue)
    \cup {-MAX_VELOCITY - 1, -MAX_VELOCITY, MAX_VELOCITY, MAX_VELOCITY + 1}

\* a value and two limits for clamp, in either order
ClampInit ==
    /\ NoGame
    /\ \E v \in ClampValues, lo \in ClampLimits, hi \in ClampLimits :
        probe = [op |-> "clamp", value |-> v, min |-> lo, max |-> hi,
                 before |-> v, applied |-> FALSE]

\* clamp(&mut value, min, max)
ClampStep ==
    /\ probe.op = "clamp"
    /\ ~probe.applied
    /\ probe' = [probe EXCEPT !.value = clamp(probe.value, probe.min, probe.max),
                              !.applied = TRUE]
    /\ UNCHANGED <<balls, active_ball, panicked, ticks, last>>

LibInit == CollidesInit \/ ClampInit

LibNext == CollidesStep \/ ClampStep

SpecLib == LibInit /\ [][LibNext]_vars

(***************************************************************************)
(* The body of the loop over the balls, on one ball                        *)
(***************************************************************************)
\* The balls the loop body meets, all of radius 30 px.  A center inside the
\* walls is where an earlier frame left the ball; a center outside them is
\* that of the held ball, moved to the cursor by the Z key in this frame.
\* The velocity is the one the ball was launched with or has kept: at rest,
\* slower than one frame's friction, 50 px per frame, above MAX_VELOCITY.
MoveBalls ==
    {[Ball_new(x, y, RADIUS_MIN, 1) EXCEPT
          !.velocity = [direction |-> d, magnitude |-> m]] :
        x \in {5 * Scale, RADIUS_MIN, 50 * Scale, 800 * Scale,
               1600 * Scale - RADIUS_MIN - MaxGrid},
        y \in {5 * Scale, RADIUS_MIN, 450 * Scale, 900 * Scale - RADIUS_MIN},
        d \in {0, 45, PI \div 2, 135, PI, -135, -(PI \div 2), -45},
        m \in {0, Scale, 50 * Scale, MAX_VELOCITY + MaxValue}}

\* one ball and what the loop body reads from ctx: the C key and the canvas
MoveInit ==
    /\ NoGame
    /\ \E b \in MoveBalls, c \in BOOLEAN, size \in Sizes :
        probe = [op |-> "move", ball |-> b, input |-> [c |-> c, size |-> size],
                 result |-> b, applied |-> FALSE]

\* one pass through the loop body
MoveStep ==
    /\ probe.op = "move"
    /\ ~probe.applied
    /\ probe' = [probe EXCEPT !.result = move(probe.ball, probe.input),
                              !.applied = TRUE]
    /\ UNCHANGED <<balls, active_ball, panicked, ticks, last>>

MoveNext == MoveStep

SpecMove == MoveInit /\ [][MoveNext]_vars

(***************************************************************************)
(* Properties                                                              *)
(***************************************************************************)
\* C1: after any sequence of frames active_ball is None or an index of the
\* current ball collection, so no frame (update or draw) indexes the
\* collection out of range; and at the end of a frame that saw the reset
\* edge active_ball is None.
C1_ActiveBallInRange ==
    /\ panicked # "index"
    /\ active_ball = None \/ InBounds(balls, active_ball)
    /\ (last.kind = "reset" /\ panicked = "no") => active_ball = None

\* C1 witness: a reset while the sixth ball was held, to a collection of five
C1_Witness ==
    /\ last.kind = "reset"
    /\ panicked = "no"
    /\ last.start_active > Len(balls)
    /\ active_ball = None

\* the frame read by the properties below
TickDone == last.kind = "tick" /\ panicked = "no"
TickInput == last.input
TickSize == last.input.size

\* C2: at the end of every non-reset frame every ball whose radius is at most
\* half of each canvas dimension has its center inside the canvas inset by its
\* radius, for that frame's canvas size.
C2_InsideCanvas ==
    TickDone =>
        \A i \in 1..Len(balls) :
            (2 * balls[i].radius <= TickSize.w /\ 2 * balls[i].radius <= TickSize.h)
            => /\ balls[i].radius <= balls[i].point.x
               /\ balls[i].point.x <= TickSize.w - balls[i].radius
               /\ balls[i].radius <= balls[i].point.y
               /\ balls[i].point.y <= TickSize.h - balls[i].radius

\* C2 witness: the canvas shrank and a ball that was beyond the new right and
\* bottom walls now touches them
C2_Witness ==
    /\ TickDone
    /\ \E i \in 1..Len(balls) :
        /\ 2 * balls[i].radius <= TickSize.h
        /\ last.start[i].point.x > TickSize.w - balls[i].radius
        /\ last.start[i].point.y > TickSize.h - balls[i].radius
        /\ balls[i].point.x = TickSize.w - balls[i].radius
        /\ balls[i].point.y = TickSize.h - balls[i].radius

\* C3: a non-reset frame never adds, removes or reorders balls and never
\* changes a radius or a color: the ball at index i after the frame is the
\* ball at index i before it.
C3_SameBalls ==
    TickDone =>
        /\ Len(balls) = Len(last.start)
        /\ \A i \in 1..Len(balls) :
            /\ balls[i].radius = last.start[i].radius
            /\ balls[i].color = last.start[i].color

\* C3 witness: a frame that changed a ball's center, velocity and flag
C3_Witness ==
    /\ TickDone
    /\ \E i \in 1..Len(balls) :
        /\ balls[i].point # last.start[i].point
        /\ balls[i].velocity # last.start[i].velocity
        /\ balls[i].is_colliding # last.start[i].is_colliding

\* the center of ball i when the press or release edge is handled: the cursor
\* for the ball held at the start of a frame with Z down, else where it was
CenterAtEdge(i) ==
    IF TickInput.z /\ last.start_active = i
    THEN TickInput.cursor
    ELSE last.start[i].point

\* the cursor is strictly inside ball i's bounding square at that moment
InSquare(i) ==
    /\ Abs(CenterAtEdge(i).x - TickInput.cursor.x) < last.start[i].radius
    /\ Abs(CenterAtEdge(i).y - TickInput.cursor.y) < last.start[i].radius

\* C4: on a frame with a press edge, whatever active_ball was, active_ball
\* becomes the lowest index whose bounding square (half-side radius, bounds
\* excluded, centered where the ball is when the edge is handled) contains
\* the cursor, and None when there is none.
C4_PressSelectsFirst ==
    (TickDone /\ TickInput.just_pressed) =>
        \/ /\ active_ball = None
           /\ \A i \in 1..Len(balls) : ~InSquare(i)
        \/ /\ active_ball \in 1..Len(balls)
           /\ InSquare(active_ball)
           /\ \A j \in 1..(active_ball - 1) : ~InSquare(j)

\* C4 witness: a press while another ball was held, with the cursor in the
\* squares of two balls, which selects the first of them
C4_Witness ==
    /\ TickDone
    /\ TickInput.just_pressed
    /\ last.start_active \notin {None, active_ball}
    /\ active_ball # None
    /\ \E j \in (active_ball + 1)..Len(balls) : InSquare(j)

\* the offset from the cursor to the center of ball i when the edge is handled
DragX(i) == CenterAtEdge(i).x - TickInput.cursor.x
DragY(i) == CenterAtEdge(i).y - TickInput.cursor.y

\* m is the length of (x, y) to the nearest unit
IsLength(m, x, y) ==
    \/ m = 0 /\ x = 0 /\ y = 0
    \/ /\ m > 0
       /\ (2 * m - 1) * (2 * m - 1) <= 4 * (x * x + y * y)
       /\ 4 * (x * x + y * y) < (2 * m + 1) * (2 * m + 1)

\* d is the whole number of degrees in -180..180 nearest to the angle of
\* (x, y) from the +x axis (0 for the zero vector)
IsAngle(d, x, y) ==
    /\ d \in -PI..PI
    /\ IF x = 0 /\ y = 0 THEN d = 0
       ELSE /\ x * cos(d) + y * sin(d) > 0
            /\ \A k \in {d - 1, d + 1} :
                   Abs(y * cos(d) - x * sin(d)) <= Abs(y * cos(k) - x * sin(k))

\* v is the vector (x, y) in polar form with its magnitude times ACCELERATION
IsLaunch(v, x, y) ==
    /\ IsAngle(v.direction, x, y)
    /\ \E m \in ((Scale * v.magnitude) \div ACCELERATION - 3)
                ..((Scale * v.magnitude) \div ACCELERATION + 3) :
           /\ IsLength(m, x, y)
           /\ 2 * Abs(Scale * v.magnitude - ACCELERATION * m) <= Scale

\* C5: on a frame with a release edge while a ball is held, that ball's
\* velocity is assigned from_xy(center - cursor) with the magnitude times
\* ACCELERATION (100 px left of the ball: direction 0, magnitude
\* 100 x ACCELERATION), no other ball's velocity is assigned and active_ball
\* is cleared; with no ball held no velocity is assigned and active_ball
\* stays None.  The velocities are those left by lines 122-135, before the
\* loop over the balls; the center is the ball's when the edge is handled.
C5_ReleaseLaunches ==
    (TickDone /\ TickInput.just_released) =>
        /\ active_ball = None
        /\ \A j \in 1..Len(balls) :
            j # last.start_active => last.aimed[j].velocity = last.start[j].velocity
        /\ last.start_active # None =>
            /\ IsLaunch(last.aimed[last.start_active].velocity,
                        DragX(last.start_active), DragY(last.start_active))
            /\ (DragX(last.start_active) = 100 * Scale /\ DragY(last.start_active) = 0)
               => last.aimed[last.start_active].velocity
                    = [direction |-> 0, magnitude |-> 100 * ACCELERATION]

\* C5 witness: a held ball released 100 px to its left
C5_Witness ==
    /\ TickDone
    /\ TickInput.just_released
    /\ last.start_active # None
    /\ DragX(last.start_active) = 100 * Scale
    /\ DragY(last.start_active) = 0
    /\ last.aimed[last.start_active].velocity.magnitude = 100 * ACCELERATION

\* the cursor is inside the canvas inset by ball i's radius
CursorInsideWalls(i) ==
    /\ balls[i].radius <= TickInput.cursor.x
    /\ TickInput.cursor.x <= TickSize.w - balls[i].radius
    /\ balls[i].radius <= TickInput.cursor.y
    /\ TickInput.cursor.y <= TickSize.h - balls[i].radius

\* C6 as claimed: in every frame in which a ball is held and Z is down,
\* integration is bypassed for it and its center at the end of the frame is
\* the cursor position.  Stated for a ball that stays held through the frame
\* and a cursor inside the walls, where no clamp can move the ball.
C6_Original ==
    (/\ TickDone /\ TickInput.z
     /\ last.start_active # None /\ active_ball = last.start_active
     /\ CursorInsideWalls(last.start_active))
    => balls[last.start_active].point = TickInput.cursor

\* the displacement of one frame for velocity v
Displacement(v) ==
    to_xy([direction |-> v.direction,
           magnitude |-> Mul(clamp(v.magnitude, -MAX_VELOCITY, MAX_VELOCITY),
                             speed_of(TickInput))])

\* coordinate c put back between radius and extent - radius, lower wall first
Walled(c, radius, extent) ==
    IF c < radius THEN radius
    ELSE IF c > extent - radius THEN extent - radius
    ELSE c

\* C6 amended: in every frame in which a ball is held at the start and Z is
\* down, the ball's center is set to the cursor before the pointer edges are
\* handled, and the ball is then integrated and walled like every other
\* ball: its center at the end of the frame is the cursor plus the frame's
\* displacement (multiplier x clamped velocity, the velocity being the one
\* launched if the frame released the ball), put back between the walls.  It
\* is the cursor itself when that velocity has magnitude 0 and the cursor is
\* inside the walls.
C6_SnapThenIntegrate ==
    (TickDone /\ TickInput.z /\ last.start_active # None) =>
        LET a == last.start_active
            d == Displacement(last.aimed[a].velocity)
        IN /\ last.snapped[a].point = TickInput.cursor
           /\ balls[a].point.x
                = Walled(TickInput.cursor.x + d.x, balls[a].radius, TickSize.w)
           /\ balls[a].point.y
                = Walled(TickInput.cursor.y + d.y, balls[a].radius, TickSize.h)
           /\ (last.aimed[a].velocity.magnitude = 0 /\ CursorInsideWalls(a))
              => balls[a].point = TickInput.cursor

\* C6 witness: a held ball with Z down and the cursor inside the walls ends
\* the frame away from the cursor, moved by its velocity
C6_Witness ==
    /\ TickDone /\ TickInput.z
    /\ last.start_active # None /\ active_ball = last.start_active
    /\ CursorInsideWalls(last.start_active)
    /\ last.start[last.start_active].velocity.magnitude > 0
    /\ balls[last.start_active].point # TickInput.cursor

\* the circles of balls i and j overlap or touch, at the published positions
Overlap(i, j) ==
    (balls[i].point.x - balls[j].point.x) * (balls[i].point.x - balls[j].point.x)
      + (balls[i].point.y - balls[j].point.y) * (balls[i].point.y - balls[j].point.y)
    <= (balls[i].radius + balls[j].radius) * (balls[i].radius + balls[j].radius)

\* C7: at the end of every non-reset frame, is_colliding of ball i holds iff
\* some other ball's circle overlaps ball i's at the positions the frame
\* publishes; the flag is computed afresh in every frame.
C7_FlagIsOverlap ==
    TickDone =>
        \A i \in 1..Len(balls) :
            balls[i].is_colliding <=> \E j \in 1..Len(balls) : j # i /\ Overlap(i, j)

\* C7 witness: a ball flagged by the previous frame overlaps nothing now and
\* is not flagged, next to a ball that is
C7_Witness ==
    /\ TickDone
    /\ \E i \in 1..Len(balls) :
        /\ last.start[i].is_colliding
        /\ ~balls[i].is_colliding
    /\ \E i \in 1..Len(balls) : balls[i].is_colliding

\* C8: collides(a, b) holds exactly when the squared distance of the centers
\* is at most the squared sum of the radii, tangent circles included, and it
\* is symmetric; radius-10 balls at (0,0) and (15,0) collide, at (0,0) and
\* (25,0) they do not.
C8_CollidesIsOverlap ==
    (probe.op = "collides" /\ probe.applied) =>
        LET a == probe.a
            b == probe.b
            dx == a.point.x - b.point.x
            dy == a.point.y - b.point.y
            rr == a.radius + b.radius
        IN /\ probe.ab <=> (dx * dx + dy * dy <= rr * rr)
           /\ probe.ab = probe.ba
           /\ (a.radius = 10 * Scale /\ b.radius = 10 * Scale /\ dy = 0
               /\ a.point.x = 0 /\ b.point.x = 15 * Scale) => probe.ab
           /\ (a.radius = 10 * Scale /\ b.radius = 10 * Scale /\ dy = 0
               /\ a.point.x = 0 /\ b.point.x = 25 * Scale) => ~probe.ab

\* C8 witness: collides has answered for two tangent circles whose centers
\* differ in both coordinates (15 px and 20 px, radii 10 px and 15 px)
C8_Witness ==
    /\ probe.op = "collides"
    /\ probe.applied
    /\ probe.ab
    /\ probe.a.point = [x |-> 0, y |-> 0]
    /\ probe.b.point = [x |-> 15 * Scale, y |-> 20 * Scale]
    /\ probe.a.radius + probe.b.radius = 25 * Scale

\* C9: slow(value, deceleration) with deceleration >= 0 leaves a result with
\* |result| <= |value|, which is 0 iff |value| <= deceleration, and which has
\* the sign of value when it is not 0.
C9_SlowResult ==
    (probe.op = "slow" /\ probe.applied) =>
        /\ Abs(probe.value) <= Abs(probe.before)
        /\ probe.value = 0 <=> Abs(probe.before) <= probe.deceleration
        /\ probe.value > 0 => probe.before > 0
        /\ probe.value < 0 => probe.before < 0

\* C9 witness: slow has stopped a negative value of exactly the deceleration
\* and, elsewhere, has left a negative value negative
C9_Witness ==
    /\ probe.op = "slow"
    /\ probe.applied
    /\ probe.before < 0
    /\ probe.deceleration > 0
    /\ \/ probe.value = 0 /\ probe.before = -probe.deceleration
       \/ probe.value < 0

\* every ball that overlaps no other ball is at rest
LoneBallsAtRest ==
    \A i \in 1..Len(balls) :
        balls[i].is_colliding \/ balls[i].velocity.magnitude = 0

\* the value slow is applied to is 0
SlowAtRest == probe.op = "slow" /\ probe.value = 0

\* C10 as claimed: under repeated slow with a fixed deceleration > 0, from
\* any starting value, |value| never increases, the value never changes sign,
\* it reaches 0 after finitely many applications and stays 0; hence in a game
\* that receives no launch every ball that overlaps no other ball eventually
\* has magnitude 0 and stays at rest.
C10_Original ==
    /\ [][probe.op = "slow" =>
            /\ Abs(probe.value') <= Abs(probe.value)
            /\ probe.value > 0 => probe.value' >= 0
            /\ probe.value < 0 => probe.value' <= 0
            /\ probe.value = 0 => probe.value' = 0]_vars
    /\ (probe.op = "slow" /\ probe.deceleration > 0) => <>[]SlowAtRest
    /\ probe.op = "none" => <>[]LoneBallsAtRest

\* C10 amended: under repeated slow with a fixed deceleration > 0, |value|
\* never increases and the value never changes sign; from a starting value
\* with |value| < 2^24 x deceleration it reaches 0 after finitely many
\* applications and stays 0 (a larger f32 can absorb the subtraction and stay
\* where it is for ever).  The game clamps a magnitude to MAX_VELOCITY before
\* it slows it, hence in a game that receives no launch every ball that
\* overlaps no other ball eventually has magnitude 0 and stays at rest.
C10_ComesToRest ==
    /\ [][probe.op = "slow" =>
            /\ Abs(probe.value') <= Abs(probe.value)
            /\ probe.value > 0 => probe.value' >= 0
            /\ probe.value < 0 => probe.value' <= 0
            /\ probe.value = 0 => probe.value' = 0]_vars
    /\ (/\ probe.op = "slow"
        /\ probe.deceleration > 0
        /\ Abs(probe.value) < 2^MANTISSA_DIGITS * probe.deceleration)
       => <>[]SlowAtRest
    /\ probe.op = "none" => <>[]LoneBallsAtRest

\* C10 witness: slow has brought a value down to 0 in three applications or
\* more
C10_Witness ==
    /\ probe.op = "slow"
    /\ probe.deceleration > 0
    /\ Abs(probe.start) > 2 * probe.deceleration
    /\ probe.before # 0
    /\ probe.value = 0

\* C11: clamp(value, min, max) with min <= max leaves a value in [min, max],
\* and leaves a value that was in [min, max] as it was.
C11_ClampResult ==
    (probe.op = "clamp" /\ probe.applied /\ probe.min <= probe.max) =>
        /\ probe.min <= probe.value
        /\ probe.value <= probe.max
        /\ (probe.min <= probe.before /\ probe.before <= probe.max)
           => probe.value = probe.before

\* C11 witness: clamp has raised a value below -MAX_VELOCITY to it
C11_Witness ==
    /\ probe.op = "clamp"
    /\ probe.applied
    /\ probe.min = -MAX_VELOCITY
    /\ probe.max = MAX_VELOCITY
    /\ probe.before < probe.min
    /\ probe.value = probe.min

\* the center of ball i after the integration of lines 154-158
Integrated(i) ==
    CHOOSE p \in {[x |-> last.aimed[i].point.x + d.x,
                   y |-> last.aimed[i].point.y + d.y] :
                  d \in {Displacement(last.aimed[i].velocity)}} : TRUE

\* the magnitude of ball i after the friction of line 161, before any bounce
AfterFriction(i) ==
    slow(clamp(last.aimed[i].velocity.magnitude, -MAX_VELOCITY, MAX_VELOCITY),
         Mul(DECELERATION, speed_of(TickInput)))

\* C12 as claimed: whenever a ball's center after integration lies left of
\* x = radius, the frame puts it at exactly x = radius and the ball's
\* magnitude after the bounce is strictly less than before the bounce.
C12_Original ==
    TickDone =>
        \A i \in 1..Len(balls) :
            Integrated(i).x < balls[i].radius =>
                /\ balls[i].point.x = balls[i].radius
                /\ last.moved[i].velocity.magnitude < AfterFriction(i)

\* C12 amended: whenever a ball's center after integration lies left of
\* x = radius, the frame puts it at exactly x = radius; the magnitude the
\* bounce leaves is strictly less than the magnitude before the bounce when
\* that was above 0, and is 0 when that was 0 (a ball at rest carried past
\* the wall by the snap key).
C12_LeftWallBounce ==
    TickDone =>
        \A i \in 1..Len(balls) :
            Integrated(i).x < balls[i].radius =>
                /\ balls[i].point.x = balls[i].radius
                /\ AfterFriction(i) > 0
                   => last.moved[i].velocity.magnitude < AfterFriction(i)
                /\ AfterFriction(i) = 0 => last.moved[i].velocity.magnitude = 0

\* C12 witness: a ball still moving after friction was left of x = radius
\* after integration, and the bounce has left it a smaller magnitude that is
\* not 0
C12_Witness ==
    /\ TickDone
    /\ \E i \in 1..Len(balls) :
        /\ Integrated(i).x < balls[i].radius
        /\ balls[i].point.x = balls[i].radius
        /\ last.moved[i].velocity.magnitude > 0
        /\ last.moved[i].velocity.magnitude < AfterFriction(i)

\* the loop body has run on the ball of scenario 3: center x = 5, radius 30,
\* magnitude 50, on the 1600-wide canvas, C up, its height inside the walls
Scenario3 ==
    /\ probe.op = "move"
    /\ probe.applied
    /\ probe.ball.point.x = 5 * Scale
    /\ probe.ball.point.y = 450 * Scale
    /\ probe.ball.radius = 30 * Scale
    /\ probe.ball.velocity.magnitude = 50 * Scale
    /\ probe.input.size.w = 1600 * Scale
    /\ ~probe.input.c

\* C13 as claimed: the ball of scenario 3 with direction 0, after one pass,
\* has been put at x = 30 by the clamp, has had its direction negated and
\* increased by pi, and its magnitude reduced by friction and by the bounce
\* deceleration.
C13_Original ==
    (Scenario3 /\ probe.ball.velocity.direction = 0) =>
        /\ probe.result.point.x = 30 * Scale
        /\ probe.result.velocity.direction = PI
        /\ probe.result.velocity.magnitude
             = 50 * Scale - DECELERATION - BOUNCE_DECELERATION

\* C13 amended: direction 0 points right: the ball of scenario 3 with
\* direction 0 moves to x = 55, meets no wall, keeps its direction and loses
\* the friction only.  With direction pi it moves further left, is put at
\* x = 30 by the clamp, has its direction negated and increased by pi (to 0)
\* and its magnitude reduced by friction and by the bounce deceleration.
C13_Scenario3 ==
    /\ (Scenario3 /\ probe.ball.velocity.direction = 0) =>
        /\ probe.result.point.x = 55 * Scale
        /\ probe.result.point.y = probe.ball.point.y
        /\ probe.result.velocity.direction = 0
        /\ probe.result.velocity.magnitude = 50 * Scale - DECELERATION
    /\ (Scenario3 /\ probe.ball.velocity.direction = PI) =>
        /\ probe.result.point.x = 30 * Scale
        /\ probe.result.point.y = probe.ball.point.y
        /\ probe.result.velocity.direction = 0
        /\ probe.result.velocity.magnitude
             = 50 * Scale - DECELERATION - BOUNCE_DECELERATION

\* C13 witness: the ball of scenario 3 moving left has bounced off the left
\* wall
C13_Witness ==
    /\ Scenario3
    /\ probe.ball.velocity.direction = PI
    /\ probe.result.point.x = probe.ball.radius
    /\ probe.result.velocity.magnitude < 50 * Scale - DECELERATION

\* ball i as the loop over the balls left it, with the flag cleared as at
\* line 202
Cleared(i) == [last.moved[i] EXCEPT !.is_colliding = FALSE]

\* C14: the collision pass of a frame is a transformation of the snapshot
\* the loop over the balls left: what it publishes for each ball is what the
\* check and resolution of that ball give against the other balls as already
\* resolved, so no ball's check or resolution depends on the resolution of
\* another, whatever the order of processing.
C14_SnapshotPass ==
    TickDone =>
        \A i \in 1..Len(balls) :
            balls[i] = bump_all(Cleared(i), i, balls, 1)

\* C14 witness: the pass changed the velocities of two balls that overlap
\* each other
C14_Witness ==
    /\ TickDone
    /\ \E i \in 1..Len(balls) : \E j \in 1..Len(balls) :
        /\ i < j
        /\ Overlap(i, j)
        /\ balls[i].velocity # last.moved[i].velocity
        /\ balls[j].velocity # last.moved[j].velocity

\* C15: every non-reset frame runs (a) the pointer input, snap first, then
\* press or release, (b) the velocity clamp and the integration, (c) friction
\* and the walls, (d) the collision pass.  So every center the frame
\* publishes is the center the ball had when the pointer edge was handled
\* plus the displacement of the velocity the edge left (the launch, on a
\* release), walled; the magnitude the loop leaves starts from that velocity
\* less the friction; and the flags are those of the overlaps at the centers
\* published.
C15_PhaseOrder ==
    TickDone =>
        \A i \in 1..Len(balls) :
            /\ last.aimed[i].point = CenterAtEdge(i)
            /\ (TickInput.just_released /\ last.start_active = i)
               => IsLaunch(last.aimed[i].velocity, DragX(i), DragY(i))
            /\ \E p \in {Integrated(i)} :
                  /\ last.moved[i].point.x = Walled(p.x, balls[i].radius, TickSize.w)
                  /\ last.moved[i].point.y = Walled(p.y, balls[i].radius, TickSize.h)
            /\ last.moved[i].velocity.magnitude <= AfterFriction(i)
            /\ balls[i].point = last.moved[i].point
            /\ balls[i].is_colliding
                 <=> \E j \in 1..Len(balls) : j # i /\ Overlap(i, j)

\* C15 witness: a ball released in this frame has been moved by its launch in
\* the same frame, and by that has come to overlap a ball it was clear of
C15_Witness ==
    /\ TickDone
    /\ TickInput.just_released
    /\ last.start_active # None
    /\ last.aimed[last.start_active].velocity.magnitude > 0
    /\ balls[last.start_active].point # CenterAtEdge(last.start_active)
    /\ \E j \in 1..Len(balls) :
        /\ j # last.start_active
        /\ Overlap(last.start_active, j)
        /\ ~collides(last.aimed[last.start_active], last.aimed[j])

\* the partners of ball i: the other balls whose circles overlap its circle
Partners(i) == {j \in 1..Len(balls) : j # i /\ Overlap(i, j)}

RECURSIVE Fold(_, _, _)
\* velocity v of ball i averaged with the repulsion of each partner from
\* index j on, in increasing index order: direction with the angle of the
\* line from the partner's center, magnitude with 10 x b.radius / a.radius
Fold(i, j, v) ==
    IF j > Len(balls) THEN v
    ELSE IF j # i /\ Overlap(i, j)
    THEN CHOOSE f \in
           {Fold(i, j + 1, w) :
              w \in {[direction |->
                          RoundDiv(atan2(balls[i].point.y - balls[j].point.y,
                                         balls[i].point.x - balls[j].point.x)
                                   + v.direction, 2),
                      magnitude |->
                          RoundDiv(RoundDiv(REPULSION * balls[j].radius,
                                            balls[i].radius)
                                   + v.magnitude, 2)]}} : TRUE
    ELSE Fold(i, j + 1, v)

\* C16: the collision pass leaves ball a the left fold, over its overlapping
\* partners in increasing index order and from the velocity the loop over the
\* balls left it, of direction = (atan2(a.y - b.y, a.x - b.x) + direction) / 2
\* and magnitude = (10 x b.radius / a.radius + magnitude) / 2; a ball with no
\* partner keeps its velocity.  Magnitudes agree to one unit of the model
\* (the code divides 10 by the rounded ratio a.radius / b.radius).
C16_LeftFold ==
    TickDone =>
        \A i \in 1..Len(balls) :
            \E f \in {Fold(i, 1, last.moved[i].velocity)} :
                /\ balls[i].velocity.direction = f.direction
                /\ Abs(balls[i].velocity.magnitude - f.magnitude) <= 1
                /\ (\A j \in 1..Len(balls) : j = i \/ ~Overlap(i, j))
                   => balls[i].velocity = last.moved[i].velocity

\* C16 witness: a ball with two partners whose fold in decreasing index
\* order would have left another direction, next to a moving ball with none
C16_Witness ==
    /\ TickDone
    /\ \E i \in 1..Len(balls) :
        /\ Cardinality(Partners(i)) >= 2
        /\ balls[i].velocity.direction
             # bump_all_descending(last.moved[i], i, last.moved, 1).velocity.direction
    /\ \E i \in 1..Len(balls) :
        /\ Partners(i) = {}
        /\ balls[i].velocity.magnitude > 0

\* the loop body has run on a ball
Moved == probe.op = "move" /\ probe.applied

\* the displacement of the pass: the clamped velocity times the multiplier
MoveDisplacement ==
    to_xy([direction |-> probe.ball.velocity.direction,
           magnitude |-> Mul(clamp(probe.ball.velocity.magnitude,
                                   -MAX_VELOCITY, MAX_VELOCITY),
                             speed_of(probe.input))])

\* the center after integration
MoveX == probe.ball.point.x + MoveDisplacement.x
MoveY == probe.ball.point.y + MoveDisplacement.y

\* the center after integration is beyond the left or right wall; beyond the
\* top or bottom wall
OutX ==
    \/ MoveX < probe.ball.radius
    \/ MoveX > probe.input.size.w - probe.ball.radius
OutY ==
    \/ MoveY < probe.ball.radius
    \/ MoveY > probe.input.size.h - probe.ball.radius

\* the magnitude after the friction of line 161
MoveAfterFriction ==
    slow(clamp(probe.ball.velocity.magnitude, -MAX_VELOCITY, MAX_VELOCITY),
         Mul(DECELERATION, speed_of(probe.input)))

\* magnitude m less one bounce deceleration, 0 when it is smaller than that
OneBounce(m) ==
    IF Abs(m) < Mul(BOUNCE_DECELERATION, speed_of(probe.input)) THEN 0
    ELSE m - signum(m) * Mul(BOUNCE_DECELERATION, speed_of(probe.input))

\* C17: a ball that leaves through the left or right wall only has its
\* direction d made pi - d; through the top or bottom wall only, -d; through
\* one of each in the same frame, pi - d, negated once and pi added once;
\* in all three cases the bounce deceleration is applied once.  A ball inside
\* the walls after integration keeps its direction and the integrated center.
C17_AxisAsymmetry ==
    Moved =>
        /\ (OutX /\ ~OutY)
           => probe.result.velocity.direction = PI - probe.ball.velocity.direction
        /\ (~OutX /\ OutY)
           => probe.result.velocity.direction = -probe.ball.velocity.direction
        /\ (OutX /\ OutY)
           => probe.result.velocity.direction = PI - probe.ball.velocity.direction
        /\ (OutX \/ OutY)
           => probe.result.velocity.magnitude = OneBounce(MoveAfterFriction)
        /\ (~OutX /\ ~OutY)
           => /\ probe.result.velocity.direction = probe.ball.velocity.direction
              /\ probe.result.point = [x |-> MoveX, y |-> MoveY]

\* C17 witness: a ball touching the left and the top wall has moved out
\* through both, is back where it was and has lost one bounce deceleration
C17_Witness ==
    /\ Moved
    /\ probe.ball.point = [x |-> probe.ball.radius, y |-> probe.ball.radius]
    /\ OutX
    /\ OutY
    /\ probe.result.point = probe.ball.point
    /\ probe.result.velocity.direction = PI - probe.ball.velocity.direction
    /\ probe.result.velocity.magnitude
         = MoveAfterFriction - Mul(BOUNCE_DECELERATION, speed_of(probe.input))
    /\ probe.result.velocity.magnitude > 0

\* the speed multiplier of the frame: SLOW_MAGNITUDE with C down, else 1.0
Multiplier == IF TickInput.c THEN SLOW_MAGNITUDE ELSE Scale

\* the magnitude of ball i as the velocity clamp of lines 140-144 leaves it
Clamped(i) ==
    IF last.aimed[i].velocity.magnitude > MAX_VELOCITY THEN MAX_VELOCITY
    ELSE IF last.aimed[i].velocity.magnitude < -MAX_VELOCITY THEN -MAX_VELOCITY
    ELSE last.aimed[i].velocity.magnitude

\* the center of ball i moved by the multiplier times its clamped velocity
Scaled(i) ==
    [x |-> last.aimed[i].point.x
             + RoundDiv(Mul(Clamped(i), Multiplier)
                        * cos(last.aimed[i].velocity.direction), Fine),
     y |-> last.aimed[i].point.y
             + RoundDiv(Mul(Clamped(i), Multiplier)
                        * sin(last.aimed[i].velocity.direction), Fine)]

\* a ball of this radius with its center at p touches no wall, and ball i
\* does not collide in the frame
Undisturbed(i, p) ==
    /\ balls[i].radius <= p.x
    /\ p.x <= TickSize.w - balls[i].radius
    /\ balls[i].radius <= p.y
    /\ p.y <= TickSize.h - balls[i].radius
    /\ ~balls[i].is_colliding

\* C18: in a frame in which a ball neither bounces nor collides, its center
\* moves by the multiplier times its clamped velocity, its direction stays,
\* and its stored magnitude is the clamped magnitude less DECELERATION times
\* the multiplier, or 0 if it was smaller than that: the multiplier scales
\* the displacement and the deceleration, never the stored velocity.
C18_MultiplierScalesStep ==
    TickDone =>
        \A i \in 1..Len(balls) :
            \E p \in {Scaled(i)} :
                Undisturbed(i, p) =>
                    /\ balls[i].point = p
                    /\ balls[i].velocity.direction = last.aimed[i].velocity.direction
                    /\ balls[i].velocity.magnitude
                         = IF Clamped(i) < Mul(DECELERATION, Multiplier) THEN 0
                           ELSE Clamped(i) - Mul(DECELERATION, Multiplier)

\* C18 witness: with C down a ball launched above MAX_VELOCITY has moved by
\* SLOW_MAGNITUDE x MAX_VELOCITY and keeps MAX_VELOCITY less DECELERATION x
\* SLOW_MAGNITUDE
C18_Witness ==
    /\ TickDone
    /\ TickInput.c
    /\ \E i \in 1..Len(balls) :
        /\ Undisturbed(i, Scaled(i))
        /\ last.aimed[i].velocity.magnitude > MAX_VELOCITY
        /\ balls[i].point # last.aimed[i].point
        /\ balls[i].velocity.magnitude
             = MAX_VELOCITY - Mul(DECELERATION, SLOW_MAGNITUDE)

\* C19: with all radii in the spawn range, at the end of every frame every
\* ball's magnitude m satisfies 0 <= m <= MAX_VELOCITY, whatever launches,
\* bounces, slow-mode frames and collisions there were.
C19_MagnitudeInRange ==
    panicked = "no" =>
        \A i \in 1..Len(balls) :
            /\ InRange(balls[i].radius, RADIUS_MIN, RADIUS_MAX)
            /\ 0 <= balls[i].velocity.magnitude
            /\ balls[i].velocity.magnitude <= MAX_VELOCITY

\* C19 witness: a ball launched with more than MAX_VELOCITY ends the frame
\* moving, in a collision, with a magnitude in range
C19_Witness ==
    /\ TickDone
    /\ TickInput.just_released
    /\ \E i \in 1..Len(balls) :
        /\ last.aimed[i].velocity.magnitude > MAX_VELOCITY
        /\ balls[i].is_colliding
        /\ balls[i].velocity.magnitude > 0
        /\ balls[i].velocity.magnitude <= MAX_VELOCITY

\* C20: active_ball changes only in frames with a press edge, a release edge
\* or a reset edge: at the end of every other frame, whatever the cursor, the
\* Z and C keys, the bounces and the collisions, it is what it was at the
\* start.
C20_ActiveBallKept ==
    (/\ last.kind = "tick"
     /\ ~TickInput.just_pressed
     /\ ~TickInput.just_released)
    => active_ball = last.start_active

\* C20 witness: a held ball, carried by Z to a cursor outside the window,
\* bounced off the walls and is still held
C20_Witness ==
    /\ TickDone
    /\ ~TickInput.just_pressed
    /\ ~TickInput.just_released
    /\ TickInput.z
    /\ last.start_active # None
    /\ active_ball = last.start_active
    /\ last.snapped[active_ball].point # balls[active_ball].point
    /\ ~CursorInsideWalls(active_ball)

====
